---- MODULE Spec2Model ----
(***************************************************************************)
(* oktaws: the discovery path (ProfileConfig::from_app_link), the resolve  *)
(* path (Profile::into_credentials) and the refresh run (main.rs refresh)  *)
(* as state machines.  Network calls and the interactive prompt are the    *)
(* environment: their outcomes are chosen nondeterministically.            *)
(***************************************************************************)
EXTENDS Integers, Sequences, FiniteSets, TLC

(* ---------------- bounds ---------------- *)
\* longest role list an assertion carries in the discovery path
MaxRoles == 2
\* longest role list an assertion carries in the resolve path
MaxSamlRoles == 2
\* longest alias list the identity service returns
MaxAliases == 2
\* longest entitlement listing the identity provider returns
MaxLinks == 2

(* ---------------- Option / Result ---------------- *)
None == <<>>
Some(x) == <<x>>
IsSome(o) == Len(o) = 1
Unwrap(o) == o[1]
\* Option::or
OptOr(a, b) == IF IsSome(a) THEN a ELSE b

Ok(v) == [ok |-> TRUE, v |-> v]
Err(e) == [ok |-> FALSE, e |-> e]
\* anyhow!(msg, args...): the format string and the values formatted into it
Anyhow(msg, args) == [msg |-> msg, args |-> args]
\* an error propagated unchanged from a collaborator with `?`
Foreign(what) == [msg |-> what, args |-> <<>>]

SeqsUpTo(S, n) == UNION {[1..k -> S] : k \in 0..n}

(* ---------------- roles ---------------- *)
\* role_arn is kept as its '/'-separated segments
RoleArns == {<<"role", "admin">>, <<"role", "dev">>, <<"role">>}
ProviderArns == {"idp1", "idp2"}
Role == [provider_arn : ProviderArns, role_arn : RoleArns]

\* Role::role_name: the name is the second of exactly two segments
role_name(role) ==
  IF Len(role.role_arn) = 2 THEN Ok(role.role_arn[2])
  ELSE Err(Anyhow("cannot parse role name", <<role.role_arn>>))

\* Iterator::find: the first of the positions I that satisfy the closure,
\* 0 if there is none
FindIndex(I) ==
  IF I = {} THEN 0 ELSE CHOOSE i \in I : \A j \in I : i <= j

(* ---------------- environment values ---------------- *)
Labels == {"app", ""}
RoleNames == {"admin", "dev", "ops"}
Hints == {None} \cup {Some(n) : n \in RoleNames}
\* the body returned by the provider sign-in page, as tokens
Bodies == {<<>>, <<"Account:", "acct-1">>}
Aliases == {"alias-a", "alias-b"}

\* saml::extract_account_name: the token that follows the account marker
extract_account_name(text) ==
  LET i == FindIndex({k \in 1..Len(text) : text[k] = "Account:"})
  IN IF i > 0 /\ i < Len(text) THEN Ok(text[i + 1])
     ELSE Err(Anyhow("No account name found", <<>>))

(* ---------------- state ---------------- *)
VARIABLES
  d_pc,        \* from_app_link: position
  d_link,      \* from_app_link: link.label
  d_default,   \* from_app_link: default_role
  d_roles,     \* from_app_link: response.roles
  d_posts,     \* from_app_link: outcomes of the post_to_aws calls, in order
  d_text,      \* from_app_link: aws_response_text
  d_selects,   \* from_app_link: the lists offered to select(), one per call
  d_role,      \* from_app_link: the selected role (Option)
  d_role_name, \* from_app_link: role_name
  d_alias_calls, \* get_account_alias: its calls and their outcomes, in order
  d_tiers,     \* from_app_link: account-name sources evaluated, in order
  d_account,   \* from_app_link: account_name (Option)
  d_result     \* from_app_link: "running", "panic", Ok(..) or Err(..)

dvars == <<d_pc, d_link, d_default, d_roles, d_posts, d_text, d_selects,
           d_role, d_role_name, d_alias_calls, d_tiers, d_account, d_result>>

(* ---------------- state of a refresh run ---------------- *)
VARIABLES
  r_pc,        \* refresh: position
  r_args,      \* refresh: args.organizations, args.profiles
  r_orgs,      \* refresh: the organizations iterator (what is left of it)
  r_org,       \* refresh: the organization of the current loop pass (Option)
  r_clients,   \* refresh: the organizations OktaClient::new was called for
  r_tasks,     \* into_credentials: the resolution of each profile of r_org
  r_map,       \* refresh: credentials_map (what is left to iterate)
  r_sets,      \* refresh: the set_sts_credentials calls that returned Ok
  r_finished,  \* into_credentials: the resolutions awaited so far, as they ended
  loaded,      \* what CredentialsStore::new() read from the credentials file
  store,       \* credentials_store.profiles
  persisted,   \* the credentials file
  saves,       \* the store.save() calls, each with the mapping it was given
  r_result     \* refresh: Running, Returned(Ok) or Returned(Err)

rvars == <<r_pc, r_args, r_orgs, r_org, r_clients, r_tasks, r_map, r_sets, r_finished,
           loaded, store, persisted, saves, r_result>>
VARIABLES
  c_pc,               \* try_from_config: position
  c_config,           \* try_from_config: profile_config
  c_name,             \* try_from_config: name
  c_default_role,     \* try_from_config: default_role
  c_default_duration, \* try_from_config: default_duration_seconds
  c_full,             \* try_from_config: full_profile_config (Option)
  c_profile           \* try_from_config: the Result returned (Option)

cvars == <<c_pc, c_config, c_name, c_default_role, c_default_duration, c_full,
           c_profile>>
vars == <<dvars, rvars, cvars>>

Running == [state |-> "running"]
Panic == [state |-> "panic"]
Returned(r) == [state |-> "returned", r |-> r]

InitDiscover ==
  /\ d_pc = "get_saml_response"
  /\ d_link \in Labels
  /\ d_default \in Hints
  /\ d_roles = <<>>
  /\ d_posts = <<>>
  /\ d_text = <<>>
  /\ d_selects = <<>>
  /\ d_role = None
  /\ d_role_name = ""
  /\ d_alias_calls = <<>>
  /\ d_tiers = <<>>
  /\ d_account = None
  /\ d_result = Running
  \* no refresh run in this specification
  /\ r_pc = "idle"
  /\ r_args = [organizations |-> <<"*">>, profiles |-> <<"*">>]
  /\ r_orgs = <<>> /\ r_org = None /\ r_clients = <<>> /\ r_tasks = <<>>
  /\ r_map = <<>>
  /\ r_sets = <<>> /\ r_finished = {} /\ loaded = <<>> /\ store = <<>> /\ persisted = <<>>
  /\ saves = <<>> /\ r_result = Running
  \* no profile is built in this specification
  /\ c_pc = "idle"
  /\ c_config = [shape |-> "Name", application |-> ""] /\ c_name = ""
  /\ c_default_role = <<>> /\ c_default_duration = <<>>
  /\ c_full = <<>> /\ c_profile = <<>>

\* `return Err(e)` / `?` on an Err
DReturn(r) == d_pc' = "done" /\ d_result' = Returned(r)

\* profile.rs:27  client.get_saml_response(link.link_url).await?
DGetSamlResponse ==
  /\ d_pc = "get_saml_response"
  /\ \/ \E roles \in SeqsUpTo(Role, MaxRoles) :
          /\ d_roles' = roles
          /\ d_pc' = "post_to_aws"
          /\ UNCHANGED d_result
     \/ /\ DReturn(Err(Foreign("get_saml_response")))
        /\ UNCHANGED d_roles
  /\ UNCHANGED <<cvars, rvars, d_link, d_default, d_posts, d_text, d_selects, d_role,
                 d_role_name, d_alias_calls, d_tiers, d_account>>

\* faulty variant: the first failure is returned at once, nothing is tried again
DPostToAws_no_retry ==
  /\ d_pc = "post_to_aws"
  /\ \E outcome \in {"Ok", "Err"} :
       /\ d_posts' = Append(d_posts, outcome)
       /\ IF outcome = "Err"
            THEN DReturn(Err(Foreign("post_to_aws")))
            ELSE d_pc' = "text" /\ UNCHANGED d_result
  /\ UNCHANGED <<cvars, rvars, d_link, d_default, d_roles, d_text, d_selects, d_role,
                 d_role_name, d_alias_calls, d_tiers, d_account>>

\* profile.rs:28  the first response.post_to_aws().await and the match on it
DPostToAws ==
  /\ d_pc = "post_to_aws"
  /\ \E outcome \in {"Ok", "Err"} :
       /\ d_posts' = Append(d_posts, outcome)
       /\ d_pc' = IF outcome = "Err" THEN "post_to_aws_again" ELSE "text"
  /\ UNCHANGED <<cvars, rvars, d_link, d_default, d_roles, d_text, d_selects, d_role,
                 d_role_name, d_alias_calls, d_tiers, d_account, d_result>>

\* profile.rs:29-34  the Err arm: post_to_aws again, then `?` on the outcome
DPostToAwsAgain ==
  /\ d_pc = "post_to_aws_again"
  /\ \E outcome \in {"Ok", "Err"} :
       /\ d_posts' = Append(d_posts, outcome)
       /\ IF outcome = "Err"
            THEN DReturn(Err(Foreign("post_to_aws")))
            ELSE d_pc' = "text" /\ UNCHANGED d_result
  /\ UNCHANGED <<cvars, rvars, d_link, d_default, d_roles, d_text, d_selects, d_role,
                 d_role_name, d_alias_calls, d_tiers, d_account>>

\* profile.rs:35  aws_response.text().await?
DText ==
  /\ d_pc = "text"
  /\ \/ \E body \in Bodies :
          /\ d_text' = body
          /\ d_pc' = "select_role"
          /\ UNCHANGED d_result
     \/ /\ DReturn(Err(Foreign("text")))
        /\ UNCHANGED d_text
  /\ UNCHANGED <<cvars, rvars, d_link, d_default, d_roles, d_posts, d_selects, d_role,
                 d_role_name, d_alias_calls, d_tiers, d_account>>

(* ---------------- ProfileConfig ---------------- *)
FullProfileConfig(application, role, duration_seconds) ==
  [application |-> application, role |-> role,
   duration_seconds |-> duration_seconds]
Name(application) == [shape |-> "Name", application |-> application]
Detailed(config) == [shape |-> "Detailed", config |-> config]

(* ---------------- role selection, profile.rs:37-65 ---------------- *)
\* what the closure of `find` does on one role: role.role_name().unwrap() == default_role
HintPanics(role) == ~role_name(role).ok
HintMatches(role, default_role) ==
  role_name(role).ok /\ role_name(role).v = default_role

\* the prompt's answer: 0 is a cancellation (an Err), i > 0 picks the i-th item
SelectAnswer(roles, choice) ==
  IF choice = 0 THEN Err(Foreign("select")) ELSE Ok(roles[choice])
\* select(items, prompt, label): what the interactive prompt is handed, and
\* what it answers
SelectCall(roles, label, choice) ==
  [items |-> roles,
   labels |-> [i \in 1..Len(roles) |-> roles[i].role_arn],
   prompt |-> <<"Choose Role for", label>>,
   answer |-> SelectAnswer(roles, choice)]

\* profile.rs:40  the arm for no role
select_none ==
  [panic |-> FALSE, prompted |-> FALSE,
   result |-> Err(Anyhow("No role found", <<>>))]
\* profile.rs:41  the arm for one role
select_single(roles) ==
  [panic |-> FALSE, prompted |-> FALSE, result |-> Ok(roles[1])]
\* profile.rs:49-54, 57-62  select(..).map_err(Into::into)
select_prompt(roles, choice) ==
  [panic |-> FALSE, prompted |-> TRUE, result |-> SelectAnswer(roles, choice)]
\* profile.rs:42-64  the arm for several roles: `find` stops at the first role
\* whose name is the default role, and unwraps every name it looks at
select_many(roles, default_role, choice) ==
  IF IsSome(default_role) THEN
    LET m == FindIndex({k \in 1..Len(roles) :
                          HintMatches(roles[k], Unwrap(default_role))})
        b == FindIndex({k \in 1..Len(roles) : HintPanics(roles[k])})
    IN IF b > 0 /\ (m = 0 \/ b < m) THEN
         [panic |-> TRUE, prompted |-> FALSE, result |-> Err(Foreign("panic"))]
       ELSE IF m > 0 THEN
         [panic |-> FALSE, prompted |-> FALSE, result |-> Ok(roles[m])]
       ELSE select_prompt(roles, choice)
  ELSE select_prompt(roles, choice)

\* faulty variant: the arm for no role is missing
select_role_without_none_arm(roles, default_role, choice) ==
  IF Len(roles) = 1 THEN select_single(roles)
  ELSE select_many(roles, default_role, choice)
\* faulty variant: the arm for one role is missing
select_role_without_single_arm(roles, default_role, choice) ==
  IF Len(roles) = 0 THEN select_none
  ELSE select_many(roles, default_role, choice)

\* profile.rs:39-65  the `match roles.len()` expression; choice is read only
\* when select() is called
select_role(roles, default_role, choice) ==
  IF Len(roles) = 0 THEN select_none
  ELSE IF Len(roles) = 1 THEN select_single(roles)
  ELSE select_many(roles, default_role, choice)

\* profile.rs:37-65  let role = match roles.len() { ... }?
DSelectRole ==
  /\ d_pc = "select_role"
  /\ \E choice \in 0..Len(d_roles) :
       LET s == select_role(d_roles, d_default, choice) IN
       /\ d_selects' = IF s.prompted
                         THEN Append(d_selects,
                                     SelectCall(d_roles, d_link, choice))
                         ELSE d_selects
       /\ IF s.panic THEN
            d_pc' = "done" /\ d_result' = Panic /\ UNCHANGED d_role
          ELSE IF s.result.ok THEN
            d_pc' = "role_name" /\ d_role' = Some(s.result.v)
            /\ UNCHANGED d_result
          ELSE
            DReturn(s.result) /\ UNCHANGED d_role
  /\ UNCHANGED <<cvars, rvars, d_link, d_default, d_roles, d_posts, d_text, d_role_name,
                 d_alias_calls, d_tiers, d_account>>

\* profile.rs:67  let role_name = role.role_name()?.to_string()
DRoleName ==
  /\ d_pc = "role_name"
  /\ LET n == role_name(Unwrap(d_role)) IN
       IF n.ok
         THEN d_role_name' = n.v /\ d_pc' = "get_account_alias"
              /\ UNCHANGED d_result
         ELSE DReturn(n) /\ UNCHANGED d_role_name
  /\ UNCHANGED <<cvars, rvars, d_link, d_default, d_roles, d_posts, d_text, d_selects,
                 d_role, d_alias_calls, d_tiers, d_account>>

(* ---------------- account naming ---------------- *)
AssumeOutcomes == {"err", "no_credentials", "credentials"}
ListOutcomes == {Err(Foreign("list_account_aliases"))}
                  \cup {Ok(a) : a \in SeqsUpTo(Aliases, MaxAliases)}

\* faulty variant: several aliases are answered with the first of them
get_account_alias_takes_first(assume, http, listing) ==
  IF assume = "err" THEN Err(Anyhow("Error assuming role", <<"assume_role">>))
  ELSE IF assume = "no_credentials" THEN Err(Anyhow("No creds", <<>>))
  ELSE IF ~http THEN Err(Foreign("HttpClient::new"))
  ELSE IF ~listing.ok THEN listing
  ELSE IF Len(listing.v) = 0 THEN Err(Anyhow("No AWS account alias found", <<>>))
  ELSE Ok(listing.v[1])

\* aws/mod.rs:13-41 on the outcomes of its three calls
get_account_alias(assume, http, listing) ==
  IF assume = "err" THEN Err(Anyhow("Error assuming role", <<"assume_role">>))
  ELSE IF assume = "no_credentials" THEN Err(Anyhow("No creds", <<>>))
  ELSE IF ~http THEN Err(Foreign("HttpClient::new"))
  ELSE IF ~listing.ok THEN listing
  ELSE IF Len(listing.v) = 0 THEN Err(Anyhow("No AWS account alias found", <<>>))
  ELSE IF Len(listing.v) = 1 THEN Ok(listing.v[1])
  ELSE Err(Anyhow("More than 1 AWS account alias found", <<>>))

\* the calls get_account_alias makes before it returns, each with its outcome
alias_calls(assume, http, listing) ==
  <<<<"assume_role", assume>>>>
  \o (IF assume = "credentials"
        THEN <<<<"HttpClient::new", IF http THEN "Ok" ELSE "Err">>>>
        ELSE <<>>)
  \o (IF assume = "credentials" /\ http
        THEN <<IF listing.ok THEN <<"list_account_aliases", "Ok">> \o listing.v
               ELSE <<"list_account_aliases", "Err">>>>
        ELSE <<>>)

\* profile.rs:69-70  get_account_alias(role, &response).await
DGetAccountAlias ==
  /\ d_pc = "get_account_alias"
  /\ \E assume \in AssumeOutcomes, http \in BOOLEAN, listing \in ListOutcomes :
       LET a == get_account_alias(assume, http, listing) IN
       /\ d_alias_calls' = alias_calls(assume, http, listing)
       /\ d_tiers' = Append(d_tiers, "alias")
       /\ IF a.ok
            THEN d_account' = Some(a.v) /\ d_pc' = "profile_config"
            ELSE d_pc' = "extract_account_name" /\ UNCHANGED d_account
  /\ UNCHANGED <<cvars, rvars, d_link, d_default, d_roles, d_posts, d_text, d_selects,
                 d_role, d_role_name, d_result>>

\* profile.rs:71  .or_else(|_| extract_account_name(&aws_response_text))
DExtractAccountName ==
  /\ d_pc = "extract_account_name"
  /\ LET a == extract_account_name(d_text) IN
       /\ d_tiers' = Append(d_tiers, "body")
       /\ IF a.ok
            THEN d_account' = Some(a.v) /\ d_pc' = "profile_config"
            ELSE d_pc' = "fallback_label" /\ UNCHANGED d_account
  /\ UNCHANGED <<cvars, rvars, d_link, d_default, d_roles, d_posts, d_text, d_selects,
                 d_role, d_role_name, d_alias_calls, d_result>>

\* profile.rs:72-75  .unwrap_or_else(|_| link.label.clone())
DFallbackLabel ==
  /\ d_pc = "fallback_label"
  /\ d_tiers' = Append(d_tiers, "label")
  /\ d_account' = Some(d_link)
  /\ d_pc' = "profile_config"
  /\ UNCHANGED <<cvars, rvars, d_link, d_default, d_roles, d_posts, d_text, d_selects,
                 d_role, d_role_name, d_alias_calls, d_result>>

\* faulty variant: the bare label is returned whatever the role
profile_config_for_bare_label(label, role_name_, default_role) == Name(label)

\* profile.rs:77-85  the ProfileConfig built for the selected role
profile_config_for(label, role_name_, default_role) ==
  IF Some(role_name_) = default_role
    THEN Name(label)
    ELSE Detailed(FullProfileConfig(label, Some(role_name_), None))

\* profile.rs:77-87  Ok((account_name, profile_config))
DProfileConfig ==
  /\ d_pc = "profile_config"
  /\ DReturn(Ok(<<Unwrap(d_account),
                  profile_config_for(d_link, d_role_name, d_default)>>))
  /\ UNCHANGED <<cvars, rvars, d_link, d_default, d_roles, d_posts, d_text, d_selects,
                 d_role, d_role_name, d_alias_calls, d_tiers, d_account>>

(* ---------------- Profile, profile.rs:98-139 ---------------- *)
\* faulty variant: the bare label is also taken as the role
FullProfileConfig_from_label_as_role(profile_config) ==
  IF profile_config.shape = "Detailed"
    THEN profile_config.config
    ELSE FullProfileConfig(profile_config.application,
                           Some(profile_config.application), None)

\* impl From<ProfileConfig> for FullProfileConfig
FullProfileConfig_from(profile_config) ==
  IF profile_config.shape = "Detailed"
    THEN profile_config.config
    ELSE FullProfileConfig(profile_config.application, None, None)

\* faulty variant: the defaults are taken before the values of the config
try_from_config_default_first(profile_config, name, default_role, default_duration_seconds) ==
  LET full_profile_config == FullProfileConfig_from(profile_config)
      role == OptOr(default_role, full_profile_config.role)
  IN IF IsSome(role)
       THEN Ok([name |-> name,
                application_name |-> full_profile_config.application,
                role |-> Unwrap(role),
                duration_seconds |-> OptOr(default_duration_seconds,
                                           full_profile_config.duration_seconds)])
       ELSE Err(Anyhow("No role found", <<>>))

\* Profile::try_from_config
try_from_config(profile_config, name, default_role, default_duration_seconds) ==
  LET full_profile_config == FullProfileConfig_from(profile_config)
      role == OptOr(full_profile_config.role, default_role)
  IN IF IsSome(role)
       THEN Ok([name |-> name,
                application_name |-> full_profile_config.application,
                role |-> Unwrap(role),
                duration_seconds |-> OptOr(full_profile_config.duration_seconds,
                                           default_duration_seconds)])
       ELSE Err(Anyhow("No role found", <<>>))

(* ---------------- building one Profile ---------------- *)
ConfigRoles == {None, Some("admin"), Some("dev")}
DefaultRoles == {None, Some("admin"), Some("ops")}
Durations == {None, Some(900), Some(3600)}
ProfileNames == {"p1", "p2"}
ProfileConfigs ==
  {Name(a) : a \in {"app1", "app2"}}
    \cup {Detailed(FullProfileConfig(a, r, d)) :
            a \in {"app1", "app2"}, r \in ConfigRoles, d \in Durations}

InitConfig ==
  /\ c_pc = "from"
  /\ c_config \in ProfileConfigs
  /\ c_name \in ProfileNames
  /\ c_default_role \in DefaultRoles
  /\ c_default_duration \in Durations
  /\ c_full = None
  /\ c_profile = None
  \* no discovery and no refresh run in this specification
  /\ d_pc = "idle"
  /\ d_link = "" /\ d_default = None /\ d_roles = <<>> /\ d_posts = <<>>
  /\ d_text = <<>> /\ d_selects = <<>> /\ d_role = None /\ d_role_name = ""
  /\ d_alias_calls = <<>> /\ d_tiers = <<>> /\ d_account = None
  /\ d_result = Running
  /\ r_pc = "idle"
  /\ r_args = [organizations |-> <<"*">>, profiles |-> <<"*">>]
  /\ r_orgs = <<>> /\ r_org = None /\ r_clients = <<>> /\ r_tasks = <<>>
  /\ r_map = <<>> /\ r_sets = <<>> /\ r_finished = {} /\ loaded = <<>>
  /\ store = <<>> /\ persisted = <<>> /\ saves = <<>> /\ r_result = Running

\* profile.rs:126  let full_profile_config = profile_config.to_owned().into()
CFrom ==
  /\ c_pc = "from"
  /\ c_full' = Some(FullProfileConfig_from(c_config))
  /\ c_pc' = "build"
  /\ UNCHANGED <<dvars, rvars, c_config, c_name, c_default_role,
                 c_default_duration, c_profile>>

\* profile.rs:128-138  Ok(Profile { .. }), or the `?` on the missing role
CBuild ==
  /\ c_pc = "build"
  /\ c_profile' = Some(try_from_config(c_config, c_name, c_default_role,
                                       c_default_duration))
  /\ c_pc' = "done"
  /\ UNCHANGED <<dvars, rvars, c_config, c_name, c_default_role,
                 c_default_duration, c_full>>

NextConfig ==
  \/ CFrom
  \/ CBuild

(* ---------------- configuration of a refresh run ---------------- *)
\* names and patterns are token sequences; "*" matches any run of tokens
OrganizationConfigs ==
  << [name |-> <<"acme", "-prod">>,
      role |-> Some("admin"),
      duration_seconds |-> None,
      profiles |-> << <<"p1", Name("app1")>>,
                      <<"p2", Detailed(FullProfileConfig("app2", Some("dev"),
                                                         None))>> >>],
     [name |-> <<"other">>,
      role |-> None,
      duration_seconds |-> Some(3600),
      profiles |-> << <<"p3", Detailed(FullProfileConfig("app1", Some("admin"),
                                                         None))>> >>] >>
OrganizationPatterns == {<<"*">>, <<"acme", "*">>, <<"other">>, <<"zzz", "*">>}
ProfilePatterns == {<<"*">>}

\* glob::Pattern::matches on token sequences
RECURSIVE GlobMatches(_, _)
GlobMatches(pattern, name) ==
  IF pattern = <<>> THEN name = <<>>
  ELSE IF Head(pattern) = "*" THEN
    \/ GlobMatches(Tail(pattern), name)
    \/ name # <<>> /\ GlobMatches(pattern, Tail(name))
  ELSE name # <<>> /\ Head(name) = Head(pattern)
       /\ GlobMatches(Tail(pattern), Tail(name))

\* Iterator::filter on a sequence
RECURSIVE FilterSeq(_, _)
FilterSeq(s, keep) ==
  IF s = <<>> THEN <<>>
  ELSE IF Head(s) \in keep THEN <<Head(s)>> \o FilterSeq(Tail(s), keep)
  ELSE FilterSeq(Tail(s), keep)

\* Config::into_organizations(filter): the organizations whose name matches
into_organizations(filter) ==
  FilterSeq(OrganizationConfigs,
            {o \in {OrganizationConfigs[i] : i \in 1..Len(OrganizationConfigs)} :
               GlobMatches(filter, o.name)})

\* Organization::into_profiles(filter): the profiles whose name matches, built
\* with try_from_config from the organization's defaults
into_profiles(organization, filter) ==
  LET ps == organization.profiles
      built == [i \in 1..Len(ps) |->
                  try_from_config(ps[i][2], ps[i][1], organization.role,
                                  organization.duration_seconds)]
  IN {built[i].v : i \in {j \in 1..Len(ps) :
                            built[j].ok /\ GlobMatches(filter, <<ps[j][1]>>)}}

(* ---------------- credentials ---------------- *)
AppNames == {"amazon_aws", "other_app"}
AppLabels == {"app1", "app2"}
AppLink == [label : AppLabels, app_name : AppNames]
link_url(app_link) == <<"https://idp/home", app_link.app_name, app_link.label>>
\* the encoded assertion the identity provider issues behind an application link
raw_for(url) == <<"SAMLResponse", url>>

\* rusoto_sts::Credentials issued for an assume-role call
Credentials(role, raw, duration_seconds) ==
  [access_key_id |-> <<"key", role.provider_arn, role.role_arn, raw>>,
   secret_access_key |-> "secret",
   session_token |-> "token",
   expiration |-> <<"expires after", duration_seconds>>]
\* creds.into(): the store keeps the three STS fields
ProfileCredentials_from(creds) ==
  [access_key_id |-> creds.access_key_id,
   secret_access_key |-> creds.secret_access_key,
   session_token |-> creds.session_token]
OldCredentials ==
  [access_key_id |-> <<"key", "old">>, secret_access_key |-> "secret",
   session_token |-> "token"]
\* what the credentials file may hold before the run
StoredNames == {"p1", "legacy"}
StoredFiles == UNION {[N -> {OldCredentials}] : N \in SUBSET StoredNames}

\* CredentialsStore.profiles.set_sts_credentials(name, creds): overwrite or insert
set_sts_credentials(profiles, name, creds) ==
  [n \in DOMAIN profiles \cup {name} |-> IF n = name THEN creds ELSE profiles[n]]

(* ---------------- a refresh run: initial state ---------------- *)
InitRefresh ==
  /\ r_pc = "start"
  /\ r_args \in [organizations : OrganizationPatterns, profiles : ProfilePatterns]
  /\ r_orgs = <<>>
  /\ r_org = None
  /\ r_clients = <<>>
  /\ r_tasks = <<>>
  /\ r_map = <<>>
  /\ r_sets = <<>>
  /\ r_finished = {}
  /\ loaded = <<>>
  /\ store = <<>>
  /\ persisted \in StoredFiles
  /\ saves = <<>>
  /\ r_result = Running
  \* no discovery in this specification
  /\ d_pc = "idle"
  /\ d_link = "" /\ d_default = None /\ d_roles = <<>> /\ d_posts = <<>>
  /\ d_text = <<>> /\ d_selects = <<>> /\ d_role = None /\ d_role_name = ""
  /\ d_alias_calls = <<>> /\ d_tiers = <<>> /\ d_account = None /\ d_result = Running
  \* no profile is built in this specification
  /\ c_pc = "idle"
  /\ c_config = [shape |-> "Name", application |-> ""] /\ c_name = ""
  /\ c_default_role = <<>> /\ c_default_duration = <<>>
  /\ c_full = <<>> /\ c_profile = <<>>

(* ---------------- Profile::into_credentials, profile.rs:142-196 ---------------- *)
NewTask(profile) ==
  [profile |-> profile, pc |-> "app_links", link |-> None, roles |-> <<>>,
   raw |-> <<>>, role |-> None, calls |-> <<>>, result |-> None]

TaskReturn(t, r) == [t EXCEPT !.pc = "done", !.result = Some(r)]

\* the app_links call as logged: its outcome, whether any entitlement listed
\* has the profile's label, and whether an amazon_aws entitlement has it
app_links_call(self, listing) ==
  <<"app_links",
    IF listing.ok THEN "Ok" ELSE "Err",
    listing.ok /\ \E k \in 1..Len(listing.v) :
                    listing.v[k].label = self.application_name,
    listing.ok /\ \E k \in 1..Len(listing.v) :
                    /\ listing.v[k].label = self.application_name
                    /\ listing.v[k].app_name = "amazon_aws">>

\* faulty variant: the entitlement is looked up by its label alone
app_links_step_by_label(t, listing) ==
  LET self == t.profile
      t1 == [t EXCEPT !.calls = Append(@, app_links_call(self, listing))]
  IN IF ~listing.ok THEN TaskReturn(t1, listing)
     ELSE LET i == FindIndex({k \in 1..Len(listing.v) :
                     listing.v[k].label = self.application_name})
          IN IF i = 0
               THEN TaskReturn(t1, Err(Anyhow(
                      "Could not find Okta application for profile",
                      <<self.name>>)))
               ELSE [t1 EXCEPT !.pc = "get_saml_response",
                               !.link = Some(listing.v[i])]

\* profile.rs:145-152 on the outcome of client.app_links(None)
app_links_step(t, listing) ==
  LET self == t.profile
      t1 == [t EXCEPT !.calls = Append(@, app_links_call(self, listing))]
  IN IF ~listing.ok THEN TaskReturn(t1, listing)
     ELSE LET i == FindIndex({k \in 1..Len(listing.v) :
                     /\ listing.v[k].app_name = "amazon_aws"
                     /\ listing.v[k].label = self.application_name})
          IN IF i = 0
               THEN TaskReturn(t1, Err(Anyhow(
                      "Could not find Okta application for profile",
                      <<self.name>>)))
               ELSE [t1 EXCEPT !.pc = "get_saml_response",
                               !.link = Some(listing.v[i])]

\* profile.rs:156-165 on the outcome of client.get_saml_response(link_url)
get_saml_response_step(t, response) ==
  LET self == t.profile
      t1 == [t EXCEPT !.calls = Append(@,
               <<"get_saml_response", link_url(Unwrap(t.link)),
                 IF response.ok THEN "Ok" ELSE "Err",
                 IF response.ok THEN Len(response.v.roles) ELSE 0>>)]
  IN IF ~response.ok
       THEN TaskReturn(t1, Err(Anyhow(
              "Error getting SAML response for profile",
              <<self.name, response.e.msg>>)))
       ELSE [t1 EXCEPT !.pc = "find_role", !.roles = response.v.roles,
                       !.raw = response.v.raw]

\* faulty variant: an assertion without roles is answered with the no-role error
find_role_step_no_role_when_empty(t) ==
  LET self == t.profile
      i == FindIndex({k \in 1..Len(t.roles) :
             IF role_name(t.roles[k]).ok
               THEN role_name(t.roles[k]).v = self.role
               ELSE FALSE})
  IN IF t.roles = <<>>
       THEN TaskReturn(t, Err(Anyhow("No role found", <<>>)))
     ELSE IF i = 0
       THEN TaskReturn([t EXCEPT !.roles = <<>>], Err(Anyhow(
              "No matching role found for profile", <<self.role, self.name>>)))
       ELSE [t EXCEPT !.pc = "assume_role", !.role = Some(t.roles[i]),
                      !.roles = <<>>]

\* faulty variant: the first role of the assertion is taken whatever its name
find_role_step_first_role(t) ==
  LET self == t.profile
  IN IF t.roles = <<>>
       THEN TaskReturn([t EXCEPT !.roles = <<>>], Err(Anyhow(
              "No matching role found for profile", <<self.role, self.name>>)))
       ELSE [t EXCEPT !.pc = "assume_role", !.role = Some(t.roles[1]),
                      !.roles = <<>>]

\* profile.rs:167-180  the role whose role_name() is Ok and equals self.role
find_role_step(t) ==
  LET self == t.profile
      i == FindIndex({k \in 1..Len(t.roles) :
             IF role_name(t.roles[k]).ok
               THEN role_name(t.roles[k]).v = self.role
               ELSE FALSE})
  IN IF i = 0
       THEN TaskReturn([t EXCEPT !.roles = <<>>], Err(Anyhow(
              "No matching role found for profile", <<self.role, self.name>>)))
       ELSE [t EXCEPT !.pc = "assume_role", !.role = Some(t.roles[i]),
                      !.roles = <<>>]

\* faulty variant: a response without credentials is answered by another exchange
assume_role_step_again(t, assume) ==
  LET self == t.profile
      role == Unwrap(t.role)
      t1 == [t EXCEPT !.calls = Append(@, <<"assume_role", role, t.raw,
                                            self.duration_seconds, assume>>)]
  IN IF assume = "err"
       THEN TaskReturn(t1, Err(Anyhow("Error assuming role for profile",
                                      <<self.name, "assume_role">>)))
     ELSE IF assume = "no_credentials"
       THEN IF Len(t.calls) < 3 THEN t1
            ELSE TaskReturn(t1, Err(Anyhow(
                   "Error fetching credentials from assumed AWS role", <<>>)))
     ELSE TaskReturn(t1, Ok(Credentials(role, t.raw, self.duration_seconds)))

\* profile.rs:184-195 on the outcome of aws::role::assume_role
assume_role_step(t, assume) ==
  LET self == t.profile
      role == Unwrap(t.role)
      t1 == [t EXCEPT !.calls = Append(@, <<"assume_role", role, t.raw,
                                            self.duration_seconds, assume>>)]
  IN IF assume = "err"
       THEN TaskReturn(t1, Err(Anyhow("Error assuming role for profile",
                                      <<self.name, "assume_role">>)))
     ELSE IF assume = "no_credentials"
       THEN TaskReturn(t1, Err(Anyhow(
              "Error fetching credentials from assumed AWS role", <<>>)))
     ELSE TaskReturn(t1, Ok(Credentials(role, t.raw, self.duration_seconds)))

TaskAt(n, pc) == r_pc = "into_credentials" /\ n \in DOMAIN r_tasks
                 /\ r_tasks[n].pc = pc
TaskStep(n, t) ==
  /\ r_tasks' = [r_tasks EXCEPT ![n] = t]
  /\ UNCHANGED <<cvars, dvars, r_clients, r_pc, r_args, r_orgs, r_org, r_map, r_sets, r_finished,
                 loaded, store, persisted, saves, r_result>>

PAppLinks ==
  \E n \in DOMAIN r_tasks :
    /\ TaskAt(n, "app_links")
    /\ \E listing \in {Err(Foreign("app_links"))}
                        \cup {Ok(l) : l \in SeqsUpTo(AppLink, MaxLinks)} :
         TaskStep(n, app_links_step(r_tasks[n], listing))

\* the roles an assertion fetched for a profile may list: two of one name
\* from different providers, one of another name, one without a name
SamlRoles ==
  {[provider_arn |-> "idp1", role_arn |-> <<"role", "admin">>],
   [provider_arn |-> "idp2", role_arn |-> <<"role", "admin">>],
   [provider_arn |-> "idp1", role_arn |-> <<"role", "dev">>],
   [provider_arn |-> "idp1", role_arn |-> <<"role">>]}

PGetSamlResponse ==
  \E n \in DOMAIN r_tasks :
    /\ TaskAt(n, "get_saml_response")
    /\ \E response \in {Err(Foreign("get_saml_response"))}
                         \cup {Ok([roles |-> rs,
                                    raw |-> raw_for(link_url(Unwrap(r_tasks[n].link)))]) :
                                 rs \in SeqsUpTo(SamlRoles, MaxSamlRoles)} :
         TaskStep(n, get_saml_response_step(r_tasks[n], response))

PFindRole ==
  \E n \in DOMAIN r_tasks :
    /\ TaskAt(n, "find_role")
    /\ TaskStep(n, find_role_step(r_tasks[n]))

PAssumeRole ==
  \E n \in DOMAIN r_tasks :
    /\ TaskAt(n, "assume_role")
    /\ \E assume \in AssumeOutcomes :
         TaskStep(n, assume_role_step(r_tasks[n], assume))

(* ---------------- refresh, main.rs:77-122 ---------------- *)
RReturn(r) == r_pc' = "done" /\ r_result' = Returned(r)

\* faulty variant: the store starts empty instead of with what the file holds
RStart_fresh_store ==
  /\ r_pc = "start"
  /\ \E config_ok \in BOOLEAN, store_ok \in BOOLEAN :
       IF ~config_ok THEN
         RReturn(Err(Foreign("Config::new")))
         /\ UNCHANGED <<loaded, store, r_orgs>>
       ELSE IF ~store_ok THEN
         RReturn(Err(Foreign("CredentialsStore::new")))
         /\ UNCHANGED <<loaded, store, r_orgs>>
       ELSE
         LET organizations == into_organizations(r_args.organizations) IN
         /\ loaded' = persisted
         /\ store' = <<>>
         /\ IF organizations = <<>>
              THEN RReturn(Err(Anyhow("No organizations found called",
                                      <<r_args.organizations>>)))
                   /\ UNCHANGED r_orgs
              ELSE r_pc' = "for_organization" /\ r_orgs' = organizations
                   /\ UNCHANGED r_result
  /\ UNCHANGED <<cvars, dvars, r_clients, r_args, r_org, r_tasks, r_map, r_sets, r_finished,
                 persisted, saves>>

\* faulty variant: the iterator is not peeked, an empty one enters the loop
RStart_no_peek ==
  /\ r_pc = "start"
  /\ \E config_ok \in BOOLEAN, store_ok \in BOOLEAN :
       IF ~config_ok THEN
         RReturn(Err(Foreign("Config::new")))
         /\ UNCHANGED <<loaded, store, r_orgs>>
       ELSE IF ~store_ok THEN
         RReturn(Err(Foreign("CredentialsStore::new")))
         /\ UNCHANGED <<loaded, store, r_orgs>>
       ELSE
         /\ loaded' = persisted
         /\ store' = persisted
         /\ r_pc' = "for_organization"
         /\ r_orgs' = into_organizations(r_args.organizations)
         /\ UNCHANGED r_result
  /\ UNCHANGED <<cvars, dvars, r_clients, r_args, r_org, r_tasks, r_map,
                 r_sets, r_finished, persisted, saves>>

\* main.rs:79-94  load the config and the store, filter, peek
RStart ==
  /\ r_pc = "start"
  /\ \E config_ok \in BOOLEAN, store_ok \in BOOLEAN :
       IF ~config_ok THEN
         RReturn(Err(Foreign("Config::new")))
         /\ UNCHANGED <<loaded, store, r_orgs>>
       ELSE IF ~store_ok THEN
         RReturn(Err(Foreign("CredentialsStore::new")))
         /\ UNCHANGED <<loaded, store, r_orgs>>
       ELSE
         LET organizations == into_organizations(r_args.organizations) IN
         /\ loaded' = persisted
         /\ store' = persisted
         /\ IF organizations = <<>>
              THEN RReturn(Err(Anyhow("No organizations found called",
                                      <<r_args.organizations>>)))
                   /\ UNCHANGED r_orgs
              ELSE r_pc' = "for_organization" /\ r_orgs' = organizations
                   /\ UNCHANGED r_result
  /\ UNCHANGED <<cvars, dvars, r_clients, r_args, r_org, r_tasks, r_map, r_sets, r_finished,
                 persisted, saves>>

\* main.rs:96  the for loop takes the next organization, or ends
RForOrganization ==
  /\ \/ r_pc = "for_organization"
     \/ r_pc = "for_credentials" /\ r_map = <<>>
  /\ IF r_orgs = <<>>
       THEN r_pc' = "save" /\ r_org' = None /\ UNCHANGED r_orgs
       ELSE r_pc' = "okta_client" /\ r_org' = Some(Head(r_orgs))
            /\ r_orgs' = Tail(r_orgs)
  /\ UNCHANGED <<cvars, dvars, r_clients, r_args, r_tasks, r_map, r_sets, r_finished, loaded, store,
                 persisted, saves, r_result>>

\* faulty variant: the resolutions of the organizations still to come are
\* started with those of the organization at hand
ROktaClient_every_organization ==
  /\ r_pc = "okta_client"
  /\ r_clients' = Append(r_clients, Unwrap(r_org).name)
  /\ \/ /\ RReturn(Err(Foreign("OktaClient::new")))
        /\ UNCHANGED r_tasks
     \/ LET ps == UNION {into_profiles(o, r_args.profiles) :
                           o \in {Unwrap(r_org)}
                                   \cup {r_orgs[i] : i \in DOMAIN r_orgs}} IN
        /\ r_tasks' = [n \in {q.name : q \in ps} |->
                         NewTask(CHOOSE q \in ps : q.name = n)]
        /\ r_pc' = "into_credentials"
        /\ UNCHANGED r_result
  /\ UNCHANGED <<cvars, dvars, r_args, r_orgs, r_org, r_map, r_sets, r_finished,
                 loaded, store, persisted, saves>>

\* main.rs:99-109  OktaClient::new(..).await?, then into_credentials starts
\* one resolution per profile that matches args.profiles
ROktaClient ==
  /\ r_pc = "okta_client"
  /\ r_clients' = Append(r_clients, Unwrap(r_org).name)
  /\ \/ /\ RReturn(Err(Foreign("OktaClient::new")))
        /\ UNCHANGED r_tasks
     \/ LET ps == into_profiles(Unwrap(r_org), r_args.profiles) IN
        /\ r_tasks' = [n \in {q.name : q \in ps} |->
                         NewTask(CHOOSE q \in ps : q.name = n)]
        /\ r_pc' = "into_credentials"
        /\ UNCHANGED r_result
  /\ UNCHANGED <<cvars, dvars, r_args, r_orgs, r_org, r_map, r_sets, r_finished,
                 loaded, store, persisted, saves>>

\* the sequences that list each element of the set S once
Orderings(S) ==
  {s \in [1..Cardinality(S) -> S] : \A x \in S : \E i \in DOMAIN s : s[i] = x}

\* main.rs:107-109  into_credentials(..).await: every resolution has finished;
\* the failures are reported, the successes are the credentials map
RIntoCredentials ==
  /\ r_pc = "into_credentials"
  /\ \A n \in DOMAIN r_tasks : r_tasks[n].pc = "done"
  /\ LET okay == {n \in DOMAIN r_tasks : Unwrap(r_tasks[n].result).ok}
     IN /\ \E order \in Orderings(okay) :
             r_map' = [i \in DOMAIN order |->
                         <<order[i], Unwrap(r_tasks[order[i]].result).v>>]
        /\ r_finished' = r_finished \cup
             {[profile |-> r_tasks[n].profile, calls |-> r_tasks[n].calls,
               result |-> Unwrap(r_tasks[n].result)] : n \in DOMAIN r_tasks}
  /\ r_tasks' = <<>>
  /\ r_pc' = "for_credentials"
  /\ UNCHANGED <<cvars, dvars, r_clients, r_args, r_orgs, r_org, r_sets, loaded, store, persisted,
                 saves, r_result>>

\* main.rs:111-117  one pass of the inner loop: lock, set_sts_credentials, `?`
RSetCredentials ==
  /\ r_pc = "for_credentials"
  /\ r_map # <<>>
  /\ LET name == Head(r_map)[1]
         creds == ProfileCredentials_from(Head(r_map)[2])
     IN \/ /\ store' = set_sts_credentials(store, name, creds)
           /\ r_sets' = Append(r_sets, <<name, creds>>)
           /\ r_map' = Tail(r_map)
           /\ UNCHANGED <<r_pc, r_result>>
        \/ /\ RReturn(Err(Foreign("set_sts_credentials")))
           /\ UNCHANGED <<store, r_sets, r_map>>
  /\ UNCHANGED <<cvars, dvars, r_clients, r_args, r_orgs, r_org, r_tasks, r_finished, loaded,
                 persisted, saves>>

\* main.rs:120-121  store.save()
RSave ==
  /\ r_pc = "save"
  /\ saves' = Append(saves, store)
  /\ \/ persisted' = store /\ RReturn(Ok(<<>>))
     \/ UNCHANGED persisted /\ RReturn(Err(Foreign("save")))
  /\ UNCHANGED <<cvars, dvars, r_clients, r_args, r_orgs, r_org, r_tasks, r_map, r_sets,
                 r_finished, loaded, store>>

NextRefresh ==
  \/ RStart
  \/ RForOrganization
  \/ ROktaClient
  \/ PAppLinks
  \/ PGetSamlResponse
  \/ PFindRole
  \/ PAssumeRole
  \/ RIntoCredentials
  \/ RSetCredentials
  \/ RSave

NextDiscover ==
  \/ DGetSamlResponse
  \/ DPostToAws
  \/ DPostToAwsAgain
  \/ DText
  \/ DSelectRole
  \/ DRoleName
  \/ DGetAccountAlias
  \/ DExtractAccountName
  \/ DFallbackLabel
  \/ DProfileConfig

(* ---------------- specifications ---------------- *)
\* one discovery of one application link
SpecDiscover == InitDiscover /\ [][NextDiscover]_vars
\* one refresh run
SpecRefresh == InitRefresh /\ [][NextRefresh]_vars
\* one Profile built from one ProfileConfig
SpecConfig == InitConfig /\ [][NextConfig]_vars

(* ---------------- properties of the discovery path ---------------- *)
ReturnedOk(res) == res.state = "returned" /\ res.r.ok
ReturnedErr(res) == res.state = "returned" /\ ~res.r.ok
PostFailure == Returned(Err(Foreign("post_to_aws")))

\* C1: post_to_aws is attempted at most twice; the second attempt is made only
\* after a failed first one and is the very next step; a failure followed by a
\* success leaves the invocation where a first success leaves it, running and
\* without an error; two failures end the invocation with the error of the call
C1_SingleRetry ==
  /\ d_posts \in {<<>>, <<"Ok">>, <<"Err">>, <<"Err", "Ok">>, <<"Err", "Err">>}
  /\ (d_posts = <<"Err">>) <=> (d_pc = "post_to_aws_again")
  /\ (d_posts = <<"Err", "Err">>) <=> (d_result = PostFailure)
  /\ (d_posts = <<"Err", "Err">>) => (d_pc = "done")
  /\ (d_pc = "text") =>
       /\ d_posts \in {<<"Ok">>, <<"Err", "Ok">>}
       /\ d_result = Running
       /\ d_text = <<>> /\ d_selects = <<>> /\ d_role = None
C1_Witness ==
  d_posts = <<"Err", "Ok">> /\ d_pc = "done" /\ ReturnedOk(d_result)

\* C6: with no role in the assertion the selection fails with the no-role
\* error whatever the hint, and the prompt is not shown
C6_NoRole ==
  [][(d_pc = "select_role" /\ Len(d_roles) = 0) =>
       /\ d_result' = Returned(Err(Anyhow("No role found", <<>>)))
       /\ d_pc' = "done"
       /\ d_selects' = <<>>
       /\ d_role' = None]_vars
C6_Witness ==
  /\ d_pc = "done" /\ d_roles = <<>> /\ IsSome(d_default)
  /\ d_result = Returned(Err(Anyhow("No role found", <<>>)))
  /\ d_selects = <<>>

\* C7: with exactly one role in the assertion that role is selected whatever
\* the hint, and the prompt is not shown
C7_SingleRole ==
  [][(d_pc = "select_role" /\ Len(d_roles) = 1) =>
       /\ d_role' = Some(d_roles[1])
       /\ d_pc' = "role_name"
       /\ d_result' = Running
       /\ d_selects' = <<>>]_vars
C7_Witness ==
  /\ d_pc = "role_name" /\ Len(d_roles) = 1 /\ d_role = Some(d_roles[1])
  /\ IsSome(d_default) /\ ~HintMatches(d_roles[1], Unwrap(d_default))
  /\ d_selects = <<>>

\* the positions of the roles whose name is the hint
HintPositions ==
  IF IsSome(d_default)
    THEN {i \in 1..Len(d_roles) : HintMatches(d_roles[i], Unwrap(d_default))}
    ELSE {}

\* C8: with two or more roles and a hint that is the name of exactly one of
\* them, that role is selected and the prompt is not shown
C8_HintSelects ==
  [][(d_pc = "select_role" /\ Len(d_roles) >= 2
      /\ Cardinality(HintPositions) = 1) =>
       /\ d_role' = Some(d_roles[CHOOSE i \in HintPositions : TRUE])
       /\ d_pc' = "role_name"
       /\ d_selects' = <<>>]_vars

\* C9: with two or more roles and no hint, or a hint that is no role's name,
\* the prompt is shown exactly once with every role in assertion order, the
\* role it answers is the one selected, and a cancellation ends the invocation
\* with an error before any account naming
C9_PromptDecides ==
  [][(d_pc = "select_role" /\ Len(d_roles) >= 2 /\ HintPositions = {}) =>
       /\ Len(d_selects') = 1
       /\ d_selects'[1].items = d_roles
       /\ d_selects'[1].labels = [i \in 1..Len(d_roles) |-> d_roles[i].role_arn]
       /\ IF d_selects'[1].answer.ok
            THEN d_role' = Some(d_selects'[1].answer.v) /\ d_pc' = "role_name"
                 /\ d_result' = Running
            ELSE d_pc' = "done" /\ ReturnedErr(d_result') /\ d_role' = None
                 /\ d_tiers' = <<>> /\ d_account' = None]_vars

\* the alias of tier 1, when its listing came back with exactly one alias
Tier1Alias ==
  IF d_alias_calls = <<>> THEN None
  ELSE LET c == d_alias_calls[Len(d_alias_calls)]
       IN IF c[1] = "list_account_aliases" /\ c[2] = "Ok" /\ Len(c) = 3
            THEN Some(c[3]) ELSE None
\* the account the body names, when it names one
BodyAccount ==
  IF Len(d_text) = 2 /\ d_text[1] = "Account:" THEN Some(d_text[2]) ELSE None

\* C10: the account name is the alias when tier 1 lists exactly one alias, and
\* then the body and the label are not used; otherwise it is the account the
\* body names when it names one, and otherwise the label; once naming has
\* started the invocation returns no error
C10_ThreeTiers ==
  (d_tiers # <<>>) =>
    /\ d_result = Running \/ ReturnedOk(d_result)
    /\ (d_pc = "extract_account_name") =>
         (d_tiers = <<"alias">> /\ Tier1Alias = None /\ d_account = None)
    /\ (d_pc = "fallback_label") =>
         /\ d_tiers = <<"alias", "body">>
         /\ Tier1Alias = None /\ BodyAccount = None /\ d_account = None
    /\ (d_pc \in {"profile_config", "done"}) =>
         IF IsSome(Tier1Alias)
           THEN d_account = Tier1Alias /\ d_tiers = <<"alias">>
         ELSE IF IsSome(BodyAccount)
           THEN d_account = BodyAccount /\ d_tiers = <<"alias", "body">>
         ELSE d_account = Some(d_link)
              /\ d_tiers = <<"alias", "body", "label">>
    /\ (d_pc = "done") => (d_result.r.v[1] = Unwrap(d_account))
C10_Witness ==
  /\ d_pc = "done" /\ ReturnedOk(d_result)
  /\ d_tiers = <<"alias", "body", "label">>
  /\ Len(d_alias_calls[Len(d_alias_calls)]) = 4
  /\ d_link = "" /\ d_result.r.v[1] = ""

(* ---------------- properties of a refresh run ---------------- *)
\* the run got past the check of the organization filter
FilterPassed ==
  /\ into_organizations(r_args.organizations) # <<>>
  /\ r_result \notin {Returned(Err(Foreign("Config::new"))),
                      Returned(Err(Foreign("CredentialsStore::new")))}
SetNames == {r_sets[i][1] : i \in DOMAIN r_sets}
\* the resolutions that have ended, awaited or not
Ended ==
  r_finished \cup
    {[profile |-> r_tasks[n].profile, calls |-> r_tasks[n].calls,
      result |-> Unwrap(r_tasks[n].result)] :
       n \in {k \in DOMAIN r_tasks : r_tasks[k].pc = "done"}}

\* C2: a run that passed the filter check ends having called save() exactly
\* once, on a store that holds every credential merged so far
C2_SavedOnce ==
  (r_pc = "done" /\ FilterPassed) =>
    /\ Len(saves) = 1
    /\ \A i \in DOMAIN r_sets :
         r_sets[i][1] \in DOMAIN saves[1] /\ saves[1][r_sets[i][1]] = r_sets[i][2]

\* C3: the mapping handed to save() holds exactly the entries loaded from the
\* file and the entries set in the run, whatever the order of the set calls:
\* each name set holds the credentials set for it, each name not set holds
\* what was loaded, every resolved profile was set, and a successful save
\* leaves the file equal to that mapping
C3_MergedStore ==
  (saves # <<>>) =>
    LET m == saves[1] IN
    /\ Len(saves) = 1
    /\ Cardinality(SetNames) = Len(r_sets)
    /\ DOMAIN m = DOMAIN loaded \cup SetNames
    /\ \A i \in DOMAIN r_sets : m[r_sets[i][1]] = r_sets[i][2]
    /\ \A n \in DOMAIN loaded \ SetNames : m[n] = loaded[n]
    /\ \A f \in r_finished :
         f.result.ok =>
           \E i \in DOMAIN r_sets :
             r_sets[i] = <<f.profile.name, ProfileCredentials_from(f.result.v)>>
    /\ ReturnedOk(r_result) => persisted = m
C3_Witness ==
  /\ ReturnedOk(r_result) /\ Len(r_sets) = 3
  /\ DOMAIN loaded = {"p1", "legacy"}
  /\ DOMAIN persisted = {"p1", "p2", "p3", "legacy"}
  /\ persisted["p1"] # OldCredentials /\ persisted["legacy"] = OldCredentials

\* the assertion fetched for the resolution f carried no role
ZeroRoles(f) ==
  \E i \in DOMAIN f.calls :
    /\ f.calls[i][1] = "get_saml_response"
    /\ f.calls[i][3] = "Ok" /\ f.calls[i][4] = 0
\* the exchange made for the resolution f returned credentials
Exchanged(f) ==
  \E i \in DOMAIN f.calls :
    f.calls[i][1] = "assume_role" /\ f.calls[i][5] = "credentials"
RoleNotMatched(profile) ==
  Err(Anyhow("No matching role found for profile",
             <<profile.role, profile.name>>))

\* C4 as stated: a resolution whose assertion carries no role fails with the
\* no-role error
C4_ZeroRolesIsNoRole ==
  \A f \in Ended :
    ZeroRoles(f) => (~f.result.ok /\ f.result.e.msg = "No role found")

\* C4 as amended: a resolution whose assertion carries no role fails with the
\* no-matching-role error naming the role and the profile; a resolution whose
\* exchange returned credentials succeeds whatever its siblings did, and its
\* credentials are in the mapping the run saves
C4_ZeroRolesIsNoMatch ==
  /\ \A f \in Ended : ZeroRoles(f) => f.result = RoleNotMatched(f.profile)
  /\ \A f \in Ended : Exchanged(f) => f.result.ok
  /\ (saves # <<>>) =>
       \A f \in r_finished :
         f.result.ok =>
           /\ f.profile.name \in DOMAIN saves[1]
           /\ saves[1][f.profile.name] = ProfileCredentials_from(f.result.v)
C4_Witness ==
  /\ ReturnedOk(r_result)
  /\ \E f \in r_finished, g \in r_finished :
       /\ f.profile.name = "p1" /\ ZeroRoles(f)
       /\ f.result = RoleNotMatched(f.profile)
       /\ g.profile.name = "p2" /\ g.result.ok
       /\ "p2" \in DOMAIN persisted
       /\ persisted["p2"] = ProfileCredentials_from(g.result.v)

\* C5: every error a resolution returns carries the name of its profile
C5_ErrorsNameProfile ==
  \A f \in Ended :
    ~f.result.ok =>
      \E i \in DOMAIN f.result.e.args : f.result.e.args[i] = f.profile.name

\* the whole-run error of a filter that matches no organization
NoOrganizations ==
  Returned(Err(Anyhow("No organizations found called",
                      <<r_args.organizations>>)))
LoadFailures ==
  {Returned(Err(Foreign("Config::new"))),
   Returned(Err(Foreign("CredentialsStore::new")))}

\* C11: when the filter matches no organization the run ends, once the config
\* and the store are loaded, with the no-organizations error, and then no
\* client was created, no resolution started, nothing was set and nothing
\* saved; when the filter matches an organization that error is never returned
C11_NoOrganizations ==
  /\ (into_organizations(r_args.organizations) = <<>> /\ r_pc # "start") =>
       /\ r_pc = "done"
       /\ r_result \in {NoOrganizations} \cup LoadFailures
       /\ r_clients = <<>> /\ r_tasks = <<>> /\ r_finished = {}
       /\ r_sets = <<>> /\ saves = <<>> /\ store = loaded
  /\ (into_organizations(r_args.organizations) # <<>>) =>
       r_result # NoOrganizations
C11_Witness ==
  /\ r_result = NoOrganizations /\ r_args.organizations = <<"zzz", "*">>
  /\ DOMAIN persisted = {"p1", "legacy"}

\* every resolution started so far, running or ended, with its result if any
Resolutions ==
  {[profile |-> f.profile, calls |-> f.calls, result |-> Some(f.result)] :
     f \in r_finished}
    \cup {[profile |-> r_tasks[n].profile, calls |-> r_tasks[n].calls,
           result |-> r_tasks[n].result] : n \in DOMAIN r_tasks}
\* the calls of the resolution f to the collaborator named
CallsNamed(f, call) == {i \in DOMAIN f.calls : f.calls[i][1] = call}
ApplicationNotFound(profile) ==
  Err(Anyhow("Could not find Okta application for profile", <<profile.name>>))

\* C12 as stated: once the entitlements are listed, the resolution fails with
\* the application-not-found error exactly when no entitlement has the label
C12_NotFoundIffNoLabel ==
  \A f \in Resolutions :
    (f.calls # <<>> /\ f.calls[1][2] = "Ok") =>
      ((f.result = Some(ApplicationNotFound(f.profile))) <=> ~f.calls[1][3])

\* C12 as amended: once the entitlements are listed, the resolution fails with
\* the application-not-found error naming the profile exactly when no
\* entitlement of the amazon_aws application has the label, and then neither
\* an assertion is fetched nor a role assumed
C12_NotFoundIffNoAwsLabel ==
  \A f \in Resolutions :
    /\ (f.calls # <<>> /\ f.calls[1][2] = "Ok") =>
         ((f.result = Some(ApplicationNotFound(f.profile))) <=> ~f.calls[1][4])
    /\ (f.result = Some(ApplicationNotFound(f.profile))) =>
         (Len(f.calls) = 1 /\ f.calls[1][2] = "Ok")
C12_Witness ==
  \E f \in r_finished :
    /\ f.result = ApplicationNotFound(f.profile)
    /\ f.calls[1][3] /\ ~f.calls[1][4] /\ Len(f.calls) = 1

\* the names of the calls a resolution has made, in order
CallNames(f) == [i \in DOMAIN f.calls |-> f.calls[i][1]]
ResolutionSteps == <<"app_links", "get_saml_response", "assume_role">>
\* the positions of the roles whose name is the one the profile is configured with
NamedRoles(t) ==
  {k \in 1..Len(t.roles) : role_name(t.roles[k]) = Ok(t.profile.role)}
\* the calls made so far are in the order of the steps; an exchange follows a
\* fetched assertion and is made with a role of the profile's role name and
\* with the bytes of that assertion; role-not-matched ends without exchange
SequentialCalls ==
  \A f \in Resolutions :
    /\ Len(f.calls) <= 3
    /\ CallNames(f) = SubSeq(ResolutionSteps, 1, Len(f.calls))
    /\ Len(f.calls) >= 2 => f.calls[1][2] = "Ok"
    /\ Len(f.calls) = 3 =>
         /\ f.calls[2][3] = "Ok"
         /\ role_name(f.calls[3][2]) = Ok(f.profile.role)
         /\ f.calls[3][3] = raw_for(f.calls[2][2])
    /\ f.result = Some(RoleNotMatched(f.profile)) =>
         (Len(f.calls) = 2 /\ f.calls[2][3] = "Ok")
\* the matching step of a resolution: the first role of the fetched assertion
\* with the configured name goes to the exchange; without one it ends
MatchStep ==
  \A n \in DOMAIN r_tasks :
    (/\ n \in DOMAIN r_tasks'
     /\ r_tasks[n].pc = "find_role"
     /\ r_tasks'[n] # r_tasks[n]) =>
      LET t == r_tasks[n]
          u == r_tasks'[n]
      IN /\ u.calls = t.calls /\ u.raw = t.raw
         /\ IF NamedRoles(t) = {}
              THEN u.pc = "done" /\ u.result = Some(RoleNotMatched(t.profile))
              ELSE /\ u.pc = "assume_role" /\ u.result = None
                   /\ \E k \in NamedRoles(t) :
                        /\ u.role = Some(t.roles[k])
                        /\ \A j \in NamedRoles(t) : k <= j

\* C13: the steps of one resolution are sequential (locate, fetch, match,
\* exchange); the exchange is attempted only after a role named profile.role
\* was found in the fetched assertion, with that role and that assertion's raw
\* bytes; without such a role the resolution fails with the role-not-matched
\* error carrying role and profile name, and no exchange is attempted
C13_SequentialSteps == []SequentialCalls /\ [][MatchStep]_vars
C13_Witness ==
  \E f \in r_finished :
    /\ f.result.ok
    /\ Len(f.calls) = 3 /\ f.calls[2][4] = 2
    /\ f.calls[3][2].role_arn = <<"role", "dev">>

MissingCredentials ==
  Err(Anyhow("Error fetching credentials from assumed AWS role", <<>>))

\* C14: a resolution invokes the entitlement listing, the assertion fetch and
\* the assume-role exchange at most once each; an assume-role response without
\* a credentials payload ends it with the missing-credentials error, that
\* exchange being its last call
C14_NoRetry ==
  \A f \in Resolutions :
    /\ \A call \in {"app_links", "get_saml_response", "assume_role"} :
         Cardinality(CallsNamed(f, call)) <= 1
    /\ \A i \in CallsNamed(f, "assume_role") :
         f.calls[i][5] = "no_credentials" =>
           (i = Len(f.calls) /\ f.result = Some(MissingCredentials))
    /\ f.result = Some(MissingCredentials) =>
         \E i \in CallsNamed(f, "assume_role") : f.calls[i][5] = "no_credentials"
C14_Witness ==
  \E f \in r_finished :
    /\ f.result = MissingCredentials
    /\ Cardinality(CallsNamed(f, "assume_role")) = 1
    /\ Len(f.calls) = 3

\* C15: in the discovery path, with two or more roles of which one cannot be
\* parsed into a name, the operation is not aborted, and a hint that is the
\* name of a parseable role still selects a role of that name
C15_UnparseableConfined ==
  [][(/\ d_pc = "select_role" /\ Len(d_roles) >= 2
      /\ \E i \in 1..Len(d_roles) : HintPanics(d_roles[i])) =>
       /\ d_result' # Panic
       /\ HintPositions # {} =>
            \E i \in HintPositions : d_role' = Some(d_roles[i])]_vars

\* the application label of a config of either shape
LabelOf(profile_config) ==
  IF profile_config.shape = "Name" THEN profile_config.application
  ELSE profile_config.config.application
\* a config that says nothing but the application label, in either shape
OnlyLabel(profile_config) ==
  \/ profile_config.shape = "Name"
  \/ /\ profile_config.shape = "Detailed"
     /\ profile_config.config.role = None
     /\ profile_config.config.duration_seconds = None
\* the same label in the other shape
OtherShape(profile_config) ==
  IF profile_config.shape = "Name"
    THEN Detailed(FullProfileConfig(profile_config.application, None, None))
    ELSE Name(profile_config.config.application)

\* C16: Name(a) and Detailed{application: a, role: absent, duration_seconds:
\* absent} are normalised to the same FullProfileConfig, the one of label a
\* without role and duration, and try_from_config gives the same result for
\* both under every name, default role and default duration
C16_ShapesEquivalent ==
  (c_pc \in {"build", "done"} /\ OnlyLabel(c_config)) =>
    /\ c_full = Some(FullProfileConfig(LabelOf(c_config), None, None))
    /\ c_full = Some(FullProfileConfig_from(OtherShape(c_config)))
    /\ c_pc = "done" =>
         c_profile = Some(try_from_config(OtherShape(c_config), c_name,
                                          c_default_role, c_default_duration))
C16_Witness ==
  /\ c_pc = "done" /\ c_config = Name("app1")
  /\ c_default_role = Some("admin") /\ c_default_duration = Some(900)
  /\ c_profile = Some(Ok([name |-> c_name, application_name |-> "app1",
                          role |-> "admin", duration_seconds |-> Some(900)]))

\* the role and the duration a config states, absent in a bare label
RoleOf(profile_config) ==
  IF profile_config.shape = "Name" THEN None ELSE profile_config.config.role
DurationOf(profile_config) ==
  IF profile_config.shape = "Name" THEN None
  ELSE profile_config.config.duration_seconds

\* C17: a Profile built by try_from_config has the role of the config when
\* the config has one, else the default role, and building fails when both
\* are absent; its duration_seconds is the config's when present, else the
\* default duration, else absent; a value of the config is never overridden
C17_RolePrecedence ==
  c_pc = "done" =>
    LET built == Unwrap(c_profile) IN
    /\ built.ok <=> (IsSome(RoleOf(c_config)) \/ IsSome(c_default_role))
    /\ ~built.ok => built = Err(Anyhow("No role found", <<>>))
    /\ built.ok =>
         /\ built.v.name = c_name
         /\ built.v.application_name = LabelOf(c_config)
         /\ built.v.role =
              IF IsSome(RoleOf(c_config)) THEN Unwrap(RoleOf(c_config))
              ELSE Unwrap(c_default_role)
         /\ built.v.duration_seconds =
              IF IsSome(DurationOf(c_config)) THEN DurationOf(c_config)
              ELSE IF IsSome(c_default_duration) THEN c_default_duration
              ELSE None
C17_Witness ==
  /\ c_pc = "done"
  /\ RoleOf(c_config) = Some("dev") /\ c_default_role = Some("admin")
  /\ DurationOf(c_config) = Some(900) /\ c_default_duration = Some(3600)
  /\ Unwrap(c_profile).ok
  /\ Unwrap(c_profile).v.role = "dev"
  /\ Unwrap(c_profile).v.duration_seconds = Some(900)

\* the names of the profiles of an organization that the run resolves
OrganizationProfiles(organization) ==
  {q.name : q \in into_profiles(organization, r_args.profiles)}
\* the organizations the filter matches
MatchedOrganizations ==
  {into_organizations(r_args.organizations)[i] :
     i \in DOMAIN into_organizations(r_args.organizations)}
\* the matched organizations the loop has left behind
EarlierOrganizations ==
  {o \in MatchedOrganizations :
     /\ r_org # Some(o)
     /\ \A i \in DOMAIN r_orgs : r_orgs[i] # o}
\* the errors that end a run early: none of them is the error of a resolution
RunFailures ==
  {Returned(Err(Foreign(what))) :
     what \in {"Config::new", "CredentialsStore::new", "OktaClient::new",
               "set_sts_credentials", "save"}}
    \cup {NoOrganizations}

C19_FirstHintElsePrompt ==
  [][d_pc = "select_role" =>
       /\ (Len(d_roles) >= 2 /\ Cardinality(HintPositions) >= 2) =>
            /\ d_role' = Some(d_roles[FindIndex(HintPositions)])
            /\ d_selects' = <<>>
       /\ (d_selects' # <<>>) <=> (Len(d_roles) >= 2 /\ HintPositions = {})]_vars

\* the ProfileConfig a successful discovery returned
ReturnedConfig == d_result.r.v[2]

\* C20: a successful from_app_link with default role d that selected role r
\* for label l returns Name(l) exactly when r's name is d, and otherwise
\* Detailed{application: l, role: r's name, no duration}; try_from_config on
\* the returned config with the same default role succeeds with
\* application_name l and the role name of r
C20_DiscoveryAgreesWithResolution ==
  (d_pc = "done" /\ ReturnedOk(d_result)) =>
    LET r == role_name(Unwrap(d_role)) IN
    /\ r.ok
    /\ (ReturnedConfig = Name(d_link)) <=> (Some(r.v) = d_default)
    /\ Some(r.v) # d_default =>
         ReturnedConfig = Detailed(FullProfileConfig(d_link, Some(r.v), None))
    /\ \A name \in ProfileNames, duration \in Durations :
         LET built == try_from_config(ReturnedConfig, name, d_default, duration)
         IN /\ built.ok
            /\ built.v.application_name = d_link
            /\ built.v.role = r.v
C20_Witness ==
  /\ d_pc = "done" /\ ReturnedOk(d_result)
  /\ Len(d_roles) = 1 /\ d_default = Some("admin")
  /\ role_name(Unwrap(d_role)) = Ok("dev")
  /\ ReturnedConfig = Detailed(FullProfileConfig(d_link, Some("dev"), None))
  /\ try_from_config(ReturnedConfig, "p1", d_default, None).v.role = "dev"

====
